---------------------------- MODULE Spec2Model ----------------------------
(***************************************************************************)
(* A model of the recipe structuring engine of SeferBishul:                *)
(*   parser.py / main.py : parse_heading, parse_line, parse_sections,      *)
(*                         Section.from_lines, nest_sections,              *)
(*                         parse_recipe_text                               *)
(*   main.py             : heading_to_renderer, render_toplevel,           *)
(*                         render_ingredients, render_prep,                *)
(*                         render_nested_sections                          *)
(*   ng.py               : State, RecipeMachine, RecipeRenderer            *)
(*                                                                         *)
(* A line of text is a sequence of characters.  "#" is the heading marker, *)
(* " " is whitespace, every other character is an ordinary one; a word     *)
(* that the program only ever compares as a whole is one character.        *)
(***************************************************************************)
EXTENDS Integers, Sequences, FiniteSets, TLC

VARIABLES
    doc,        \* recipe.splitlines(): the lines of the document
    pc,         \* position of the parser pipeline
    err,        \* the exception that ended the pipeline, "" when none
    sections,   \* the list handed to nest_sections
    lists,      \* the heap of Python list objects holding children
    nextOid,    \* identity of the next object to be created
    toplevel,   \* nest_sections' local `toplevel`
    stack,      \* nest_sections' local `stack`
    idx,        \* position of the for loop of nest_sections in `sections`
    call,       \* how many times nest_sections was entered on `sections`
    pops,       \* number of stack.pop() executed by the current call
    firstTree,  \* value of the tree when the first call returned
    rstack,     \* render_nested_sections' local `stack`
    rendered,   \* render_nested_sections' local `rendered_sections`
    prepContent, \* section.content handed to the preparation rule
    steps,      \* the `steps` the preparation rule computed
    steps2,     \* the `steps` of the rule run again, on `steps` as content
    prepPc,     \* which function computed `steps`, "start" before
    tokens,     \* the token sequence handed to RecipeRenderer.render
    tokIdx,     \* position of render's loop in `tokens`
    smState,    \* RecipeMachine.state of the renderer's machine
    out,        \* the markup emitted so far, marker by marker
    ngPc,       \* position of RecipeRenderer.render
    renders     \* calls of render made on the RecipeRenderer instance

parserVars == <<doc, pc, err, sections, lists, nextOid, toplevel, stack, idx,
                call, pops, firstTree>>

renderVars == <<rstack, rendered>>

prepVars == <<prepContent, steps, steps2, prepPc>>

ngVars == <<tokens, tokIdx, smState, out, ngPc, renders>>

vars == <<parserVars, renderVars, prepVars, ngVars>>

None == [kind |-> "None"]

----------------------------------------------------------------------------
(* Bounds of the model                                                     *)

\* longest document of the parser specification, in lines
MaxLines == 5

----------------------------------------------------------------------------
(* Sequences                                                               *)

Last(s) == s[Len(s)]

Front(s) == SubSeq(s, 1, Len(s) - 1)

RECURSIVE Concat(_)
Concat(ss) == IF ss = <<>> THEN <<>> ELSE Head(ss) \o Concat(Tail(ss))

\* all sequences over S of length at most n
SeqsUpTo(S, n) == UNION {[1..k -> S] : k \in 0..n}

----------------------------------------------------------------------------
(* Line Classifier: parse_heading, parse_line                              *)

IsSpace(c) == c = " "

\* length of the run of "#" a line starts with: group 1 of  (#+)(.*)
RECURSIVE MarkerRun(_)
MarkerRun(line) ==
    IF line # <<>> /\ Head(line) = "#" THEN 1 + MarkerRun(Tail(line)) ELSE 0

RECURSIVE LStrip(_)
LStrip(s) == IF s # <<>> /\ IsSpace(Head(s)) THEN LStrip(Tail(s)) ELSE s

RECURSIVE RStrip(_)
RStrip(s) == IF s # <<>> /\ IsSpace(Last(s)) THEN RStrip(Front(s)) ELSE s

\* str.strip()
Strip(s) == RStrip(LStrip(s))

Heading(text, level) == [kind |-> "Heading", text |-> text, level |-> level]

Str(line) == [kind |-> "str", value |-> line]

IsHeading(l) == l.kind = "Heading"

\* a classifier that takes a run of more than six "#" for plain text
parse_heading_max6(line) ==
    LET level == MarkerRun(line)
    IN  IF level >= 1 /\ level <= 6
        THEN Heading(Strip(SubSeq(line, level + 1, Len(line))), level)
        ELSE None

parse_heading(line) ==
    LET level == MarkerRun(line)
    IN  IF level >= 1
        THEN Heading(Strip(SubSeq(line, level + 1, Len(line))), level)
        ELSE None

parse_line(line) ==
    IF parse_heading(line) # None THEN parse_heading(line) ELSE Str(line)

----------------------------------------------------------------------------
(* Section Segmenter: more_itertools.split_before, Section.from_lines,     *)
(* parse_sections                                                          *)

\* more_itertools.split_before(ls, isinstance Heading): a new group starts
\* before every Heading; an empty input yields no group
RECURSIVE split_before(_)
split_before(ls) ==
    IF ls = <<>> THEN <<>>
    ELSE LET rest == split_before(Tail(ls))
         IN  IF rest = <<>> THEN << <<Head(ls)>> >>
             ELSE IF IsHeading(Head(Tail(ls)))
                  THEN << <<Head(ls)>> >> \o rest
                  ELSE << <<Head(ls)>> \o Head(rest) >> \o Tail(rest)

\* the assert of Section.from_lines
from_lines_ok(group) == IsHeading(Head(group))

\* from_lines keeping only the non-empty lines as content
from_lines_no_blank(group, oid) ==
    [heading  |-> Head(group),
     content  |-> LET rest == SelectSeq(Tail(group), LAMBDA l : l.value # <<>>)
                  IN  [k \in 1..Len(rest) |-> rest[k].value],
     children |-> oid,
     oid      |-> oid,
     pos      |-> oid]

\* Section.from_lines; the object created is `oid` and owns the fresh list
\* `oid` made by the factory of `children`.  `pos` is not a field of the
\* program: it records which section of the source the object stands for.
from_lines(group, oid) ==
    [heading  |-> Head(group),
     content  |-> [k \in 1..(Len(group) - 1) |-> group[k + 1].value],
     children |-> oid,
     oid      |-> oid,
     pos      |-> oid]

parsed_lines(recipe) == [k \in 1..Len(recipe) |-> parse_line(recipe[k])]

section_lines(recipe) == split_before(parsed_lines(recipe))

\* whether list(map(Section.from_lines, section_lines)) raises
parse_sections_raises(recipe) ==
    \E g \in 1..Len(section_lines(recipe)) :
        ~from_lines_ok(section_lines(recipe)[g])

parse_sections(recipe) ==
    [g \in 1..Len(section_lines(recipe)) |->
        from_lines(section_lines(recipe)[g], g)]

----------------------------------------------------------------------------
(* The heap of children lists                                              *)

ListAt(h, id) == IF id \in DOMAIN h THEN h[id] ELSE <<>>

Store(h, id, val) ==
    [x \in (DOMAIN h) \cup {id} |-> IF x = id THEN val ELSE h[x]]

\* list.append
ListAppend(h, id, x) == Store(h, id, Append(ListAt(h, id), x))

----------------------------------------------------------------------------
(* Section Tree Builder: nest_sections                                     *)

\* a copy that owns a fresh, empty children list
copy_fresh_list(section) ==
    [section EXCEPT !.oid = nextOid, !.children = nextOid]

\* copy(section) = attrs.evolve(section): a new object with the same field
\* values, so the same children list object
copy(section) == [section EXCEPT !.oid = nextOid]

\* `assert sections`
nest_assert_nonempty(secs) == secs # <<>>

\* the assertion on the level of the first section left out
nest_assert_toplevel_off(secs) == TRUE

\* `assert sections[0].heading.level == 1`
nest_assert_toplevel(secs) == secs[1].heading.level = 1

\* the while loop popping on strictly lower levels only
pop_cond_strict(section, stk) ==
    stk # <<>> /\ section.heading.level < Last(stk).heading.level

\* the condition of the while loop
pop_cond(section, stk) ==
    stk # <<>> /\ section.heading.level <= Last(stk).heading.level

\* what stack.append pushes after the child was attached
pushed(section, attached) == section

\* children.append(copy(section))
attach(h, parent, child) == ListAppend(h, parent.children, child)

----------------------------------------------------------------------------
(* The values the program computes from a tree                             *)

\* the tree below a section as a value: what attrs' == compares
RECURSIVE TreeOf(_, _)
TreeOf(sec, h) ==
    [heading  |-> sec.heading,
     content  |-> sec.content,
     children |-> [k \in 1..Len(ListAt(h, sec.children)) |->
                      TreeOf(ListAt(h, sec.children)[k], h)]]

\* the nodes of the tree below a section, depth first, pre-order, children
\* in list order
RECURSIVE Preorder(_, _)
Preorder(sec, h) ==
    <<sec>> \o Concat([k \in 1..Len(ListAt(h, sec.children)) |->
                          Preorder(ListAt(h, sec.children)[k], h)])

----------------------------------------------------------------------------
(* The documents of the parser specification                               *)

NestLines ==
    { <<"#", " ", "a">>,          \* level 1
      <<"#", "#", "b", " ">>,     \* level 2
      <<"#", "#", "#", "c">>,     \* level 3
      <<"x">>,                    \* a plain line
      <<>> }                      \* an empty line

\* the preparation rule not in use
PrepIdle ==
    /\ prepContent = <<>>
    /\ steps = <<>>
    /\ steps2 = <<>>
    /\ prepPc = "start"

\* no RecipeRenderer in use
NgIdle ==
    /\ tokens = <<>>
    /\ tokIdx = 0
    /\ smState = "Start"
    /\ out = <<>>
    /\ ngPc = "idle"
    /\ renders = 0

Init ==
    /\ doc \in SeqsUpTo(NestLines, MaxLines)
    /\ pc = "parse"
    /\ err = ""
    /\ sections = <<>>
    /\ lists = <<>>
    /\ nextOid = 1
    /\ toplevel = None
    /\ stack = <<>>
    /\ idx = 0
    /\ call = 0
    /\ pops = 0
    /\ firstTree = None
    /\ rstack = <<>>
    /\ rendered = <<>>
    /\ PrepIdle
    /\ NgIdle

\* parse_recipe_text up to `sections = list(sections)`
ParseSections ==
    /\ pc = "parse"
    /\ IF parse_sections_raises(doc)
       THEN /\ pc' = "error"
            /\ err' = "AssertionError"
            /\ UNCHANGED <<sections, lists, nextOid>>
       ELSE /\ pc' = "nest"
            /\ sections' = parse_sections(doc)
            /\ lists' = [k \in 1..Len(parse_sections(doc)) |-> <<>>]
            /\ nextOid' = Len(parse_sections(doc)) + 1
            /\ err' = ""
    /\ UNCHANGED <<doc, toplevel, stack, idx, call, pops, firstTree>>
    /\ UNCHANGED <<renderVars, prepVars, ngVars>>

\* nest_sections from its entry to the head of the for loop
EnterNest ==
    /\ IF ~nest_assert_nonempty(sections)
       THEN /\ pc' = "error"
            /\ err' = "AssertionError"
            /\ UNCHANGED <<nextOid, toplevel, stack, idx>>
       ELSE IF ~nest_assert_toplevel(sections)
       THEN /\ pc' = "error"
            /\ err' = "AssertionError"
            /\ UNCHANGED <<nextOid, toplevel, stack, idx>>
       ELSE /\ pc' = "loop"
            /\ err' = ""
            /\ toplevel' = copy(sections[1])
            /\ stack' = <<copy(sections[1])>>
            /\ nextOid' = nextOid + 1
            /\ idx' = 2
    /\ call' = call + 1
    /\ pops' = 0
    /\ UNCHANGED <<doc, sections, lists, firstTree>>
    /\ UNCHANGED <<renderVars, prepVars, ngVars>>

\* the first call, made by parse_recipe_text
NestFirst ==
    /\ pc = "nest"
    /\ EnterNest

\* one stack.pop() of the while loop
LoopPop ==
    /\ pc = "loop"
    /\ idx <= Len(sections)
    /\ pop_cond(sections[idx], stack)
    /\ stack' = Front(stack)
    /\ pops' = pops + 1
    /\ UNCHANGED <<doc, pc, err, sections, lists, nextOid, toplevel, idx,
                   call, firstTree>>
    /\ UNCHANGED <<renderVars, prepVars, ngVars>>

\* the rest of one iteration, the while loop having ended on a stack that
\* is not empty
LoopAttach ==
    /\ pc = "loop"
    /\ idx <= Len(sections)
    /\ ~pop_cond(sections[idx], stack)
    /\ stack # <<>>
    /\ lists' = attach(lists, Last(stack), copy(sections[idx]))
    /\ stack' = Append(stack, pushed(sections[idx], copy(sections[idx])))
    /\ nextOid' = nextOid + 1
    /\ idx' = idx + 1
    /\ UNCHANGED <<doc, pc, err, sections, toplevel, call, pops, firstTree>>
    /\ UNCHANGED <<renderVars, prepVars, ngVars>>

\* stack[-1] on the stack the while loop emptied
LoopIndexError ==
    /\ pc = "loop"
    /\ idx <= Len(sections)
    /\ stack = <<>>
    /\ pc' = "error"
    /\ err' = "IndexError"
    /\ UNCHANGED <<doc, sections, lists, nextOid, toplevel, stack, idx,
                   call, pops, firstTree>>
    /\ UNCHANGED <<renderVars, prepVars, ngVars>>

\* `return toplevel`
NestReturn ==
    /\ pc = "loop"
    /\ idx > Len(sections)
    /\ pc' = "returned"
    /\ firstTree' = IF call = 1 THEN TreeOf(toplevel, lists) ELSE firstTree
    /\ UNCHANGED <<doc, err, sections, lists, nextOid, toplevel, stack, idx,
                   call, pops>>
    /\ UNCHANGED <<renderVars, prepVars, ngVars>>

\* nest_sections called a second time on the same list of sections
NestAgain ==
    /\ pc = "returned"
    /\ call = 1
    /\ EnterNest

Next ==
    \/ ParseSections
    \/ NestFirst
    \/ LoopPop
    \/ LoopAttach
    \/ LoopIndexError
    \/ NestReturn
    \/ NestAgain

Spec == Init /\ [][Next]_vars

----------------------------------------------------------------------------
(* Role Resolver and the rendering rules of main.py                        *)

\* the heading texts of _RENDER_MAPPING, one character per Hebrew word
Homarim == <<"Homarim">>                        \* the ingredients heading

Horaot == <<"Horaot">>                          \* the preparation heading

HoraotHakhana == <<"Horaot", " ", "Hakhana">>   \* its second spelling

\* a function object of main.py, by its name
Fn(name) == [kind |-> "function", name |-> name]

\* _RENDER_MAPPING inverted: the keys are str objects
HEADING_TO_RENDER_MAPPING ==
    [key \in {Str(Homarim), Str(Horaot), Str(HoraotHakhana)} |->
        IF key = Str(Homarim) THEN Fn("render_ingredients")
                              ELSE Fn("render_prep")]

\* dict.get(key): None unless a key of the dict equals `key`
DictGet(d, key) == IF key \in DOMAIN d THEN d[key] ELSE None

\* the key heading_to_renderer looks up: the Heading object itself
lookup_key(heading) == heading

heading_to_renderer(heading) ==
    IF heading.level # 2
    THEN None
    ELSE DictGet(HEADING_TO_RENDER_MAPPING, lookup_key(heading))

\* filter(bool, content): a str is false only when it is empty
NonEmptyLines(content) == SelectSeq(content, LAMBDA l : l # <<>>)

\* "\n".join(lines)
RECURSIVE Join(_)
Join(ls) ==
    IF ls = <<>> THEN <<>>
    ELSE IF Len(ls) = 1 THEN Head(ls)
    ELSE Head(ls) \o <<"\n">> \o Join(Tail(ls))

\* more_itertools.split_at(content, lambda s: not s): the items between
\* the empty lines, one group more than there are empty lines
RECURSIVE split_at(_)
split_at(content) ==
    IF content = <<>> THEN << <<>> >>
    ELSE LET rest == split_at(Tail(content))
         IN  IF Head(content) = <<>>
             THEN << <<>> >> \o rest
             ELSE << <<Head(content)>> \o Head(rest) >> \o Tail(rest)

\* split_at with the predicate inverted: the content split at its
\* non-empty lines
RECURSIVE split_at_filled(_)
split_at_filled(content) ==
    IF content = <<>> THEN << <<>> >>
    ELSE LET rest == split_at_filled(Tail(content))
         IN  IF Head(content) # <<>>
             THEN << <<>> >> \o rest
             ELSE << <<Head(content)>> \o Head(rest) >> \o Tail(rest)

\* the blocks render_prep and main.parse_recipe_text join into steps
prep_blocks(content) == split_at(content)

\* the `steps` of render_prep and of main.parse_recipe_text
prep_steps(content) ==
    [k \in 1..Len(prep_blocks(content)) |-> Join(prep_blocks(content)[k])]

\* what each rule hands to its template
render_toplevel(section) == Join(NonEmptyLines(section.content))

render_ingredients(section) == NonEmptyLines(section.content)

render_prep(section) == prep_steps(section.content)

\* renderer(section): the fragment, tagged with the rule that made it;
\* there is nothing to render with when `renderer` is no function
Fragment(renderer, section) ==
    [renderer |-> renderer,
     heading  |-> section.heading,
     pos      |-> section.pos,
     payload  |-> CASE renderer = Fn("render_toplevel") ->
                           render_toplevel(section)
                    [] renderer = Fn("render_ingredients") ->
                           render_ingredients(section)
                    [] renderer = Fn("render_prep") ->
                           render_prep(section)
                    [] OTHER -> <<>>]

\* the resolved rule with no fallback to the inherited one
pick_renderer_own(own, inherited) == own

\* heading_to_renderer(section.heading) or renderer
pick_renderer(own, inherited) == IF own # None THEN own ELSE inherited

\* only the first child pushed
push_children_first(stk, children, renderer) ==
    IF children = <<>> THEN stk
    ELSE Append(stk, [section |-> children[1], renderer |-> renderer])

\* for child in section.children: stack.append((child, renderer))
push_children(stk, children, renderer) ==
    stk \o [k \in 1..Len(children) |->
               [section |-> children[k], renderer |-> renderer]]

----------------------------------------------------------------------------
(* Tree Renderer: render_nested_sections on the tree of a document         *)

\* longest document of the renderer specification, in lines after the title
MaxRenderLines == 3

TitleLine == <<"#", " ", "T">>

RenderLines ==
    { TitleLine,
      <<"#", "#", " ", "Homarim", " ">>,
      <<"#", "#", " ", "Horaot">>,
      <<"#", "#", " ", "Horaot", " ", "Hakhana">>,
      <<"#", "#", " ", "o">>,     \* a level 2 heading the table does not hold
      <<"#", "#", "#", "s">>,
      <<"x">>,
      <<>> }

InitRender ==
    /\ doc \in {<<TitleLine>> \o r : r \in SeqsUpTo(RenderLines, MaxRenderLines)}
    /\ pc = "parse"
    /\ err = ""
    /\ sections = <<>>
    /\ lists = <<>>
    /\ nextOid = 1
    /\ toplevel = None
    /\ stack = <<>>
    /\ idx = 0
    /\ call = 0
    /\ pops = 0
    /\ firstTree = None
    /\ rstack = <<>>
    /\ rendered = <<>>
    /\ PrepIdle
    /\ NgIdle

\* render_nested_sections up to the head of its while loop
StartRender ==
    /\ pc = "returned"
    /\ call = 1
    /\ pc' = "render"
    /\ rstack' = <<[section |-> toplevel, renderer |-> Fn("render_toplevel")]>>
    /\ rendered' = <<>>
    /\ UNCHANGED <<doc, err, sections, lists, nextOid, toplevel, stack, idx,
                   call, pops, firstTree, prepVars, ngVars>>

\* one iteration of the while loop
RenderStep ==
    /\ pc = "render"
    /\ rstack # <<>>
    /\ LET section  == Last(rstack).section
           renderer == pick_renderer(heading_to_renderer(section.heading),
                                     Last(rstack).renderer)
       IN  /\ rendered' = Append(rendered, Fragment(renderer, section))
           /\ rstack' = push_children(Front(rstack),
                                      ListAt(lists, section.children), renderer)
    /\ UNCHANGED <<parserVars, prepVars, ngVars>>

\* the loop ends on the empty stack
RenderReturn ==
    /\ pc = "render"
    /\ rstack = <<>>
    /\ pc' = "rendered"
    /\ UNCHANGED <<doc, err, sections, lists, nextOid, toplevel, stack, idx,
                   call, pops, firstTree, renderVars, prepVars, ngVars>>

NextRender ==
    \/ ParseSections
    \/ NestFirst
    \/ LoopPop
    \/ LoopAttach
    \/ LoopIndexError
    \/ NestReturn
    \/ StartRender
    \/ RenderStep
    \/ RenderReturn

SpecRender == InitRender /\ [][NextRender]_vars

\* the while loop is sequential code: an iteration that can run, runs
SpecRenderFair == SpecRender /\ WF_vars(RenderStep \/ RenderReturn)

----------------------------------------------------------------------------
(* Properties of the Section Tree Builder                                  *)

Lvl(k) == sections[k].heading.level

\* the sections before b whose level is strictly lower than b's
LowerBefore(b) == {a \in 1..(b - 1) : Lvl(a) < Lvl(b)}

\* the nearest of them in source order
NearestLower(b) == CHOOSE a \in LowerBefore(b) : \A c \in LowerBefore(b) : c <= a

TreeNodes == Preorder(toplevel, lists)

\* the sections in whose children list section b is found, in the tree
ParentsOf(b) ==
    {TreeNodes[n].pos : n \in
        {m \in 1..Len(TreeNodes) :
            \E j \in 1..Len(ListAt(lists, TreeNodes[m].children)) :
                ListAt(lists, TreeNodes[m].children)[j].pos = b}}

\* how often section b is found in the tree
Occurrences(b) == Cardinality({n \in 1..Len(TreeNodes) : TreeNodes[n].pos = b})

\* the sections the first call has attached so far
Attached == IF call = 1 /\ toplevel # None THEN 2..(idx - 1) ELSE {}

\* C1: in the tree nest_sections builds from a list whose first section has
\* level 1, every later section that has a preceding section of strictly
\* lower level is found once, as a child of the nearest such section; when
\* the call returns every later section has been attached.
C1_NearestLowerParent ==
    /\ \A b \in Attached :
          /\ LowerBefore(b) # {}
          /\ ParentsOf(b) = {NearestLower(b)}
          /\ Occurrences(b) = 1
    /\ (pc = "returned" /\ call = 1) => Attached = 2..Len(sections)

\* levels 1, 3, 2 built into a root with two children
C1_Witness ==
    /\ pc = "returned"
    /\ call = 1
    /\ [k \in 1..Len(sections) |-> Lvl(k)] = <<1, 3, 2>>
    /\ ParentsOf(2) = {1}
    /\ ParentsOf(3) = {1}
    /\ Len(ListAt(lists, toplevel.children)) = 2

HeadingsOf(secs) == [k \in 1..Len(secs) |-> secs[k].heading]

\* C2: when nest_sections returns a tree for a document, the headings of
\* the tree in pre-order are the headings of parse_sections' list, in the
\* same order, none dropped and none twice.
C2_PreorderIsSourceOrder ==
    (pc = "returned" /\ call = 1) =>
        HeadingsOf(TreeNodes) = HeadingsOf(parse_sections(doc))

\* a tree of depth three was flattened
C2_Witness ==
    /\ pc = "returned"
    /\ call = 1
    /\ Len(sections) >= 4
    /\ \E b \in 2..Len(sections) : ParentsOf(b) # {1}
    /\ HeadingsOf(TreeNodes) = HeadingsOf(parse_sections(doc))

\* C3: a later section with no preceding section of strictly lower level
\* becomes a direct child of the root, and the build does not fail on it.
C3_OrphanIsRootChild ==
    /\ err # "IndexError"
    /\ (pc = "returned" /\ call = 1) =>
          \A b \in 2..Len(sections) :
              LowerBefore(b) = {} => ParentsOf(b) = {1}

\* the document starts with a heading of level 1, read off its characters
StartsWithLevel1(d) ==
    /\ d # <<>>
    /\ Len(d[1]) >= 1
    /\ d[1][1] = "#"
    /\ (Len(d[1]) >= 2 => d[1][2] # "#")

\* C9: parse_recipe_text ends in an error and builds no tree for a document
\* that is empty, whose first line is no heading, or whose first heading
\* has a level other than 1.
C9_MalformedRejected ==
    ~StartsWithLevel1(doc) =>
        /\ pc \in {"parse", "nest", "error"}
        /\ toplevel = None
        /\ (pc = "error" => err = "AssertionError")

\* a document whose first heading has level 2 was rejected
C9_Witness ==
    /\ pc = "error"
    /\ doc # <<>>
    /\ MarkerRun(doc[1]) = 2
    /\ Len(doc) >= 2

\* the lines of d that are headings
HeadingLines(d) == {k \in 1..Len(d) : IsHeading(parse_line(d[k]))}

\* the k-th of them
KthHeading(d, k) ==
    CHOOSE i \in HeadingLines(d) :
        Cardinality({j \in HeadingLines(d) : j <= i}) = k

\* the line the section after the k-th heading starts at, or the end
SectionEnd(d, k) ==
    IF k = Cardinality(HeadingLines(d)) THEN Len(d) + 1
    ELSE KthHeading(d, k + 1)

\* heading + content of all the sections, as classified lines
FlattenSections(secs) ==
    Concat([k \in 1..Len(secs) |->
               <<secs[k].heading>> \o
               [n \in 1..Len(secs[k].content) |-> Str(secs[k].content[n])]])

\* C15: for a document whose first line is a heading, parse_sections gives
\* one section per heading, in source order; the content of a section is
\* the plain lines, empty ones included, between its heading and the next;
\* no content line is a heading; heading + content of all the sections is
\* the classified line sequence.
C15_ParseLossless ==
    (doc # <<>> /\ IsHeading(parse_line(doc[1])) /\ pc # "parse") =>
        /\ pc = "error" => err # "AssertionError" \/ sections # <<>>
        /\ Len(sections) = Cardinality(HeadingLines(doc))
        /\ \A k \in 1..Len(sections) :
              /\ sections[k].heading = parse_line(doc[KthHeading(doc, k)])
              /\ sections[k].content =
                     SubSeq(doc, KthHeading(doc, k) + 1, SectionEnd(doc, k) - 1)
              /\ \A n \in 1..Len(sections[k].content) :
                     ~IsHeading(parse_line(sections[k].content[n]))
        /\ FlattenSections(sections) = parsed_lines(doc)

\* two sections were parsed, the first with an empty line and a plain line
\* as content
C15_Witness ==
    /\ pc = "nest"
    /\ Len(sections) = 2
    /\ sections[1].content = << <<>>, <<"x">> >>
    /\ doc[4] = <<"#", "#", "b", " ">>
    /\ sections[2].heading = Heading(<<"b">>, 2)

\* the sections pushed onto the stack so far: those on it and those popped
Pushed == Len(stack) + pops

\* C16: on a section list whose first section has level 1, nest_sections
\* ends with every section pushed onto the stack exactly once and popped at
\* most once, so that the pops never exceed the number of sections.
C16_EachSectionPushedOnce ==
    StartsWithLevel1(doc) =>
        /\ pops <= Len(sections)
        /\ pc = "loop" => Pushed = idx - 1
        /\ pc \in {"returned", "error"} => Pushed = Len(sections)

\* section x is found in the children list of section p
IsChildOf(x, p, h) ==
    \E k \in 1..Len(ListAt(h, p.children)) :
        /\ ListAt(h, p.children)[k].pos = x.pos
        /\ ListAt(h, p.children)[k].heading = x.heading

\* stk is a path of the tree in heap h that starts at the root
PathFromRoot(stk, h) ==
    /\ stk # <<>>
    /\ stk[1] = toplevel
    /\ \A k \in 2..Len(stk) :
          /\ stk[k - 1].heading.level < stk[k].heading.level
          /\ IsChildOf(stk[k], stk[k - 1], h)

\* C18: when nest_sections attaches a section, the stack is not empty, its
\* bottom is the root, the levels of its elements strictly increase from
\* bottom to top and each element above the bottom is a child of the one
\* below it; after the attachment the same holds with the section just
\* attached on top: the stack is the path from the root to it.
C18_StackIsPathFromRoot ==
    [][LoopAttach =>
          /\ PathFromRoot(stack, lists)
          /\ PathFromRoot(stack', lists')
          /\ Last(stack').pos = idx
          /\ Len(stack') = Len(stack) + 1]_vars

\* a level 3 section was attached below a level 2 section below the root,
\* after a pop
C18_Witness ==
    /\ pc = "loop"
    /\ call = 1
    /\ pops >= 1
    /\ Len(stack) = 3
    /\ Last(stack).pos = idx - 1
    /\ PathFromRoot(stack, lists)

\* C10: nest_sections does not modify its input: after the call every
\* section of the input still has the children it had before (none, as
\* parse_sections made them), and a second call on the same list returns a
\* tree equal to the first.
C10_InputUntouched ==
    /\ (pc = "returned" /\ call = 1) =>
          \A k \in 1..Len(sections) :
              ListAt(lists, sections[k].children) = <<>>
    /\ (pc = "returned" /\ call = 2) => TreeOf(toplevel, lists) = firstTree

----------------------------------------------------------------------------
(* Documents with a heading of more than six markers                       *)

\* longest document of the deep heading specification, in lines
MaxDeepLines == 4

DeepLines ==
    { <<"#", " ", "a">>,                                 \* level 1
      <<"#", "#", "b">>,                                 \* level 2
      <<"#", "#", "#", "#", "#", "#", "#", " ", "d">>,   \* level 7
      <<"x">> }

InitDeep ==
    /\ doc \in SeqsUpTo(DeepLines, MaxDeepLines)
    /\ pc = "parse"
    /\ err = ""
    /\ sections = <<>>
    /\ lists = <<>>
    /\ nextOid = 1
    /\ toplevel = None
    /\ stack = <<>>
    /\ idx = 0
    /\ call = 0
    /\ pops = 0
    /\ firstTree = None
    /\ rstack = <<>>
    /\ rendered = <<>>
    /\ PrepIdle
    /\ NgIdle

SpecDeep == InitDeep /\ [][Next]_vars

\* the lines of a document that start with the marker
MarkedLines(d) == SelectSeq(d, LAMBDA l : l # <<>> /\ Head(l) = "#")

\* the length of the longest prefix of a line made of "#" only
RECURSIVE MarkerCount(_)
MarkerCount(l) ==
    IF l = <<>> THEN 0
    ELSE IF \A k \in 1..Len(l) : l[k] = "#" THEN Len(l)
    ELSE MarkerCount(Front(l))

\* C12 as claimed: a document with a heading of seven markers is rejected:
\* parse_sections / nest_sections fail for it and build no tree.
C12_DeepLevelRejected ==
    (\E k \in 1..Len(doc) : MarkerCount(doc[k]) >= 7) =>
        /\ pc \in {"parse", "nest", "error"}
        /\ toplevel = None

\* C12: the level of a heading is the number of its markers, with no upper
\* bound; the build fails only for a document that is empty or does not
\* start with a heading of level 1, and for a later section with no
\* preceding section of strictly lower level; a returned tree holds every
\* section once, those of level 7 included.
C12_AnyLevelAccepted ==
    /\ sections # <<>> =>
          [k \in 1..Len(sections) |-> Lvl(k)] =
              [k \in 1..Len(MarkedLines(doc)) |-> MarkerCount(MarkedLines(doc)[k])]
    /\ pc = "error" =>
          \/ ~StartsWithLevel1(doc)
          \/ \E b \in 2..Len(sections) : LowerBefore(b) = {}
    /\ (pc = "returned" /\ call = 1) =>
          \A b \in 1..Len(sections) : Occurrences(b) = 1

\* a tree was returned that holds a section of level 7 below another
C12_Witness ==
    /\ pc = "returned"
    /\ call = 1
    /\ Len(sections) >= 3
    /\ \E b \in 2..Len(sections) : Lvl(b) = 7 /\ ParentsOf(b) = {b - 1}

----------------------------------------------------------------------------
(* Properties of the Tree Renderer and the Role Resolver                   *)

\* C4: the fragments render_nested_sections emits follow document order:
\* a fragment of an earlier section of the source comes before every
\* fragment of a later one.
C4_FragmentsInDocumentOrder ==
    \A j, k \in 1..Len(rendered) :
        j < k => rendered[j].pos < rendered[k].pos

\* the rule the static table gives a level 2 heading text
TableRole(text) ==
    IF text = Homarim THEN Fn("render_ingredients")
    ELSE IF text \in {Horaot, HoraotHakhana} THEN Fn("render_prep")
    ELSE None

\* C5: heading_to_renderer resolves a level 2 heading by its text: the
\* ingredients text gives render_ingredients, each of the two preparation
\* texts gives render_prep, any other text gives None.
C5_ResolvesByText ==
    \A k \in 1..Len(rendered) :
        rendered[k].heading.level = 2 =>
            /\ heading_to_renderer(rendered[k].heading) =
                   TableRole(rendered[k].heading.text)
            /\ TableRole(rendered[k].heading.text) # None =>
                   rendered[k].renderer = TableRole(rendered[k].heading.text)

\* the section whose child section b is, in the tree of the first call
ParentOf(b) == CHOOSE p \in ParentsOf(b) : TRUE

\* the rule of the nearest section, from b up to the root, whose own
\* heading resolves; render_toplevel when none does
RECURSIVE RoleOf(_)
RoleOf(b) ==
    IF heading_to_renderer(sections[b].heading) # None
    THEN heading_to_renderer(sections[b].heading)
    ELSE IF b = 1 THEN Fn("render_toplevel") ELSE RoleOf(ParentOf(b))

RECURSIVE IsAncestor(_, _)
IsAncestor(a, b) ==
    /\ b # 1
    /\ ParentsOf(b) # {}
    /\ \/ a = ParentOf(b)
       \/ IsAncestor(a, ParentOf(b))

\* every node of the tree has exactly one fragment, and the fragment of a
\* node comes before the fragment of each of its descendants
EveryNodeOnce ==
    /\ Len(rendered) = Len(TreeNodes)
    /\ \A n \in 1..Len(TreeNodes) :
          Cardinality({k \in 1..Len(rendered) :
                          rendered[k].pos = TreeNodes[n].pos}) = 1
    /\ \A j, k \in 1..Len(rendered) :
          IsAncestor(rendered[j].pos, rendered[k].pos) => j < k

\* C14: render_nested_sections terminates on every tree and, when it has
\* returned, has rendered every node exactly once: as many fragments as
\* nodes, the fragment of a node before those of its descendants.
C14_TerminatesEveryNodeOnce ==
    /\ [](pc = "rendered" => EveryNodeOnce)
    /\ (pc = "render") ~> (pc = "rendered")

\* a tree of three levels, with two children under the root, was rendered
C14_Witness ==
    /\ pc = "rendered"
    /\ Len(ListAt(lists, toplevel.children)) >= 2
    /\ \E j, k \in 1..Len(rendered) :
          /\ rendered[k].heading.level = 3
          /\ rendered[j].heading.level = 2
          /\ IsAncestor(rendered[j].pos, rendered[k].pos)
          /\ j < k

\* "...".split("\n"): the lines of a joined block
RECURSIVE SplitLines(_)
SplitLines(s) ==
    IF s = <<>> THEN << <<>> >>
    ELSE LET rest == SplitLines(Tail(s))
         IN  IF Head(s) = "\n"
             THEN << <<>> >> \o rest
             ELSE << <<Head(s)>> \o Head(rest) >> \o Tail(rest)

\* the lines a fragment shows: the items of an ingredients list, the lines
\* of the steps of a preparation
ShownLines(f) ==
    IF f.renderer = Fn("render_ingredients") THEN f.payload
    ELSE IF f.renderer = Fn("render_prep")
    THEN NonEmptyLines(Concat([k \in 1..Len(f.payload) |->
                                  SplitLines(f.payload[k])]))
    ELSE <<>>

\* the document has a level 2 ingredients heading and, after it, a level 2
\* preparation heading
HasIngredientsThenPrep ==
    \E a, b \in 1..Len(sections) :
        /\ a < b
        /\ sections[a].heading = Heading(Homarim, 2)
        /\ sections[b].heading.level = 2
        /\ sections[b].heading.text \in {Horaot, HoraotHakhana}

\* C11: in a document with a title, an ingredients heading and a preparation
\* heading, every non-empty content line of the two sections is shown by
\* exactly one fragment, the one of the section's role: an item of the
\* ingredients list, a line of a preparation step.
C11_LinesUnderTheirRole ==
    (pc = "rendered" /\ HasIngredientsThenPrep) =>
        \A b \in 1..Len(sections) :
            (sections[b].heading.level = 2
                /\ TableRole(sections[b].heading.text) # None) =>
            /\ Cardinality({k \in 1..Len(rendered) : rendered[k].pos = b}) = 1
            /\ \A k \in 1..Len(rendered) :
                  rendered[k].pos = b =>
                      /\ rendered[k].renderer =
                             TableRole(sections[b].heading.text)
                      /\ ShownLines(rendered[k]) =
                             NonEmptyLines(sections[b].content)

----------------------------------------------------------------------------
(* The preparation rule on the content of one section                      *)

\* longest content of the preparation specification, in lines
MaxContent == 4

PrepLines == { <<>>, <<"a">>, <<"b">> }

\* the parser and the tree renderer not in use
ParserIdle ==
    /\ doc = <<>>
    /\ pc = "idle"
    /\ err = ""
    /\ sections = <<>>
    /\ lists = <<>>
    /\ nextOid = 1
    /\ toplevel = None
    /\ stack = <<>>
    /\ idx = 0
    /\ call = 0
    /\ pops = 0
    /\ firstTree = None
    /\ rstack = <<>>
    /\ rendered = <<>>

InitPrep ==
    /\ prepContent \in SeqsUpTo(PrepLines, MaxContent)
    /\ steps = <<>>
    /\ steps2 = <<>>
    /\ prepPc = "start"
    /\ ParserIdle
    /\ NgIdle

\* render_prep(section) computing `steps` for its template
RenderPrep ==
    /\ prepPc = "start"
    /\ steps' = render_prep([content |-> prepContent])
    /\ prepPc' = "render_prep"
    /\ UNCHANGED <<prepContent, steps2, parserVars, renderVars, ngVars>>

\* main.parse_recipe_text computing `steps` from sections[2].content
ParseRecipeSteps ==
    /\ prepPc = "start"
    /\ steps' = prep_steps(prepContent)
    /\ prepPc' = "parse_recipe_text"
    /\ UNCHANGED <<prepContent, steps2, parserVars, renderVars, ngVars>>

\* the rule run a second time, its own output taken as the content
RunAgain ==
    /\ prepPc \in {"render_prep", "parse_recipe_text"}
    /\ steps2' = prep_steps(steps)
    /\ prepPc' = "again"
    /\ UNCHANGED <<prepContent, steps, parserVars, renderVars, ngVars>>

NextPrep ==
    \/ RenderPrep
    \/ ParseRecipeSteps
    \/ RunAgain

SpecPrep == InitPrep /\ [][NextPrep]_vars

\* the maximal runs of non-empty lines of a content, in their order
split_at_nonempty(lines) ==
    SelectSeq(split_at(lines), LAMBDA g : g # <<>>)

\* C7: the preparation rule returns exactly the maximal runs of non-empty
\* lines of the content, each joined with line breaks, in their order; no
\* step is empty, however many blank lines follow each other, lead or
\* trail.
C7_StepsAreNonEmptyRuns ==
    prepPc # "start" =>
        /\ \A k \in 1..Len(steps) : steps[k] # <<>>
        /\ steps = [k \in 1..Len(split_at_nonempty(prepContent)) |->
                       Join(split_at_nonempty(prepContent)[k])]

\* an already collapsed block: non-empty lines, one per step, with exactly
\* one empty line between two of them
Collapsed(c) ==
    /\ Len(c) % 2 = 1
    /\ \A k \in 1..Len(c) : (c[k] = <<>>) <=> (k % 2 = 0)

\* its steps
CollapsedSteps(c) == [k \in 1..((Len(c) + 1) \div 2) |-> c[2 * k - 1]]

\* the lines ls with a line break between every two
RECURSIVE WithBreaks(_)
WithBreaks(ls) ==
    IF Len(ls) = 1 THEN ls[1]
    ELSE WithBreaks(Front(ls)) \o <<"\n">> \o Last(ls)

\* C13 as claimed: an already collapsed block yields its own steps, and the
\* rule run a second time on its output leaves the step list unchanged.
C13_SecondRunNoOp ==
    Collapsed(prepContent) =>
        /\ prepPc # "start" => steps = CollapsedSteps(prepContent)
        /\ prepPc = "again" => steps2 = steps

\* C13: an already collapsed block yields its own steps; the rule run a
\* second time, on that step list, returns one step, the steps joined with
\* line breaks, which is the same list only for a block of one step.
C13_SecondRunJoins ==
    Collapsed(prepContent) =>
        /\ prepPc # "start" => steps = CollapsedSteps(prepContent)
        /\ prepPc = "again" =>
              /\ steps2 = <<WithBreaks(CollapsedSteps(prepContent))>>
              /\ (steps2 = steps) <=> (Len(steps) = 1)

\* the rule ran twice on a collapsed block of two steps
C13_Witness ==
    /\ prepPc = "again"
    /\ Collapsed(prepContent)
    /\ Len(steps) = 2
    /\ Len(steps2) = 1
    /\ steps2[1] = steps[1] \o <<"\n">> \o steps[2]

----------------------------------------------------------------------------
(* RecipeMachine and RecipeRenderer of ng.py                               *)

\* longest token sequence of the renderer specification
MaxTokens == 4

Token(type, tag) == [type |-> type, tag |-> tag]

Tokens ==
    { Token("heading_open", "h1"),
      Token("heading_open", "h2"),
      Token("heading_open", "h3"),
      Token("heading_close", "h2"),
      Token("inline", "") }

\* the markers of the markup: the three opening <div ...> of process, told
\* apart by their class, and the closing </div>
OpenBody == "<div class=recipe-body>"

OpenIngredients == "<div class=ingredients>"

OpenPrep == "<div class=prep>"

DivOpen == {OpenBody, OpenIngredients, OpenPrep}

DivClose == "</div>"

\* process falling back to TitleFound on the second h2
process_state_back(state, token) ==
    CASE state = "Start" /\ token = Token("heading_open", "h1") ->
             "TitleFound"
      [] state = "TitleFound" /\ token = Token("heading_open", "h2") ->
             "IngredientsFound"
      [] state = "IngredientsFound" /\ token = Token("heading_open", "h2") ->
             "TitleFound"
      [] OTHER -> state

\* RecipeMachine.process: the state it leaves
process_state(state, token) ==
    CASE state = "Start" /\ token = Token("heading_open", "h1") ->
             "TitleFound"
      [] state = "TitleFound" /\ token = Token("heading_open", "h2") ->
             "IngredientsFound"
      [] state = "IngredientsFound" /\ token = Token("heading_open", "h2") ->
             "PrepFound"
      [] OTHER -> state

\* RecipeMachine.process: the string it returns
process_out(state, token) ==
    CASE state = "TitleFound" /\ token = Token("heading_open", "h2") ->
             <<OpenBody, OpenIngredients>>
      [] state = "IngredientsFound" /\ token = Token("heading_open", "h2") ->
             <<DivClose, OpenPrep>>
      [] OTHER -> <<>>

\* self.renderToken and the rules of RendererHTML: the markup of the token
\* itself, which holds no container marker
renderToken(token) == <<token.type>>

\* the closers RecipeRenderer.render appends
render_tail == <<DivClose, DivClose>>

\* md = MarkdownIt(renderer_cls=RecipeRenderer); md.render(text)
InitNg ==
    /\ tokens \in SeqsUpTo(Tokens, MaxTokens)
    /\ tokIdx = 1
    /\ smState = "Start"
    /\ out = <<>>
    /\ ngPc = "render"
    /\ renders = 1
    /\ ParserIdle
    /\ PrepIdle

\* RecipeRenderer.heading_open on the next token
HeadingOpen ==
    /\ ngPc = "render"
    /\ tokIdx <= Len(tokens)
    /\ tokens[tokIdx].type = "heading_open"
    /\ out' = out \o process_out(smState, tokens[tokIdx])
                  \o renderToken(tokens[tokIdx])
    /\ smState' = process_state(smState, tokens[tokIdx])
    /\ tokIdx' = tokIdx + 1
    /\ UNCHANGED <<tokens, ngPc, renders, parserVars, renderVars, prepVars>>

\* RendererHTML's rule for a token of any other type
OtherToken ==
    /\ ngPc = "render"
    /\ tokIdx <= Len(tokens)
    /\ tokens[tokIdx].type # "heading_open"
    /\ out' = out \o renderToken(tokens[tokIdx])
    /\ tokIdx' = tokIdx + 1
    /\ UNCHANGED <<tokens, smState, ngPc, renders, parserVars, renderVars,
                   prepVars>>

\* RecipeRenderer.render returning super().render(...) + "</div>" * 2
RenderTail ==
    /\ ngPc = "render"
    /\ tokIdx > Len(tokens)
    /\ out' = out \o render_tail
    /\ ngPc' = "done"
    /\ UNCHANGED <<tokens, tokIdx, smState, renders, parserVars, renderVars,
                   prepVars>>

NextNg ==
    \/ HeadingOpen
    \/ OtherToken
    \/ RenderTail

SpecNg == InitNg /\ [][NextNg]_vars

\* the number of markers of the set ms among the first n of the output
Count(ms, n) == Cardinality({k \in 1..n : out[k] \in ms})

\* C8: the container markup a fresh RecipeRenderer emits is balanced: in no
\* prefix of the output do closers outnumber openers, and in the finished
\* output there are as many closers as openers.
C8_MarkupBalanced ==
    /\ \A n \in 0..Len(out) : Count({DivClose}, n) <= Count(DivOpen, n)
    /\ ngPc = "done" => Count({DivClose}, Len(out)) = Count(DivOpen, Len(out))

\* the one step of the machine a token takes in a state, if any
Advance ==
    { <<"Start", Token("heading_open", "h1"), "TitleFound">>,
      <<"TitleFound", Token("heading_open", "h2"), "IngredientsFound">>,
      <<"IngredientsFound", Token("heading_open", "h2"), "PrepFound">> }

\* the positions of marker m in the output
Positions(m) == {k \in 1..Len(out) : out[k] = m}

\* the token during whose rendering the marker at position k was emitted:
\* every token before it left one piece of markup of its own
TokenOf(k) ==
    Cardinality({j \in 1..k : out[j] \notin DivOpen \cup {DivClose}}) + 1

\* what the machine emitted for the token just rendered
Emitted == SubSeq(out', Len(out) + 1, Len(out') - 1)

\* C19: the state of RecipeMachine only advances along Start -> TitleFound
\* -> IngredientsFound -> PrepFound, one step per matching heading_open
\* token; every other token leaves the state unchanged and emits nothing;
\* PrepFound is absorbing; the ingredients container and the prep container
\* are each opened at most once, the prep container never before the
\* ingredients container, and neither before an h1.
C19_MachineOnlyAdvances ==
    /\ [][(HeadingOpen \/ OtherToken) =>
             IF <<smState, tokens[tokIdx], smState'>> \in Advance
             THEN Emitted # <<>> <=> smState # "Start"
             ELSE /\ smState' = smState
                  /\ Emitted = <<>>
                  /\ \A a \in Advance :
                        ~(a[1] = smState /\ a[2] = tokens[tokIdx])]_vars
    /\ [](/\ Cardinality(Positions(OpenIngredients)) <= 1
          /\ Cardinality(Positions(OpenPrep)) <= 1
          /\ \A p \in Positions(OpenPrep) :
                \E i \in Positions(OpenIngredients) : i < p
          /\ \A k \in Positions(OpenIngredients) \cup Positions(OpenPrep) :
                \E t \in 1..(TokenOf(k) - 1) :
                    tokens[t] = Token("heading_open", "h1"))

\* a title, the ingredients heading, the prep heading and one more h2 were
\* rendered: the machine is in PrepFound and each container was opened once
C19_Witness ==
    /\ ngPc = "done"
    /\ renders = 1
    /\ smState = "PrepFound"
    /\ Len(tokens) = 4
    /\ tokens[4] = Token("heading_open", "h2")
    /\ Cardinality(Positions(OpenIngredients)) = 1
    /\ Cardinality(Positions(OpenPrep)) = 1

----------------------------------------------------------------------------
(* One RecipeRenderer instance rendering two token sequences               *)

\* longest token sequence of the two-call specification
MaxReuseTokens == 2

InitNgReuse ==
    /\ tokens \in SeqsUpTo(Tokens, MaxReuseTokens)
    /\ tokIdx = 1
    /\ smState = "Start"
    /\ out = <<>>
    /\ ngPc = "render"
    /\ renders = 1
    /\ ParserIdle
    /\ PrepIdle

\* md.render(text) a second time: the same renderer instance, and with it
\* the same RecipeMachine, is handed the tokens of another text
RenderAgain ==
    /\ ngPc = "done"
    /\ renders = 1
    /\ tokens' \in SeqsUpTo(Tokens, MaxReuseTokens)
    /\ tokIdx' = 1
    /\ out' = <<>>
    /\ ngPc' = "render"
    /\ renders' = 2
    /\ UNCHANGED <<smState, parserVars, renderVars, prepVars>>

NextNgReuse ==
    \/ HeadingOpen
    \/ OtherToken
    \/ RenderTail
    \/ RenderAgain

SpecNgReuse == InitNgReuse /\ [][NextNgReuse]_vars

\* RecipeRenderer.render of the tokens toks by a machine in state `state`
RECURSIVE render(_, _)
render(state, toks) ==
    IF toks = <<>> THEN render_tail
    ELSE IF Head(toks).type = "heading_open"
         THEN process_out(state, Head(toks)) \o renderToken(Head(toks))
                  \o render(process_state(state, Head(toks)), Tail(toks))
         ELSE renderToken(Head(toks)) \o render(state, Tail(toks))

\* C17: rendering is stateless across calls: the output of the second of
\* two calls on one RecipeRenderer instance is the output a fresh
\* RecipeRenderer gives for the same tokens.
C17_StatelessAcrossCalls ==
    (ngPc = "done" /\ renders = 2) => out = render("Start", tokens)

=============================================================================
